---- MODULE Spec2Model ----
(***************************************************************************)
(* A model of qlcs.py: a generalized suffix tree built with Ukkonen's      *)
(* algorithm (SuffixTree.append_string) and the search for common          *)
(* substrings over it (SuffixTree.find_common_substrings).                 *)
(*                                                                         *)
(* Symbols are one-character strings.  Buffer indices, node.start and      *)
(* node.end are the 0-based indices of the Python code; CharAt and Slice   *)
(* translate them to the 1-based sequences of TLA+.  Nodes live in an      *)
(* arena: the node with Python identifier k is nodes[k + 1], and a node    *)
(* reference that is None in Python is NoNode.                             *)
(***************************************************************************)
EXTENDS Integers, Sequences, FiniteSets, TLC

\* ------------------------------------------------------------------ bounds
MaxLen == 2          \* longest input drawn from the alphabet Sigma
MaxStrings == 2      \* strings appended to one tree under Spec
MaxQueries == 2      \* consecutive find_common_substrings calls
MoreStrings == 3     \* strings under SpecClasses and SpecReserved
ManyStrings == 11    \* strings appended to one tree under SpecMany

\* --------------------------------------------------------------- constants
\* qlcs.py:21 sets END_OF_STRING = 10**10 ("infinity").  TLC's integers have
\* 32 bits, so the sentinel is 10**9 here: like the original it exceeds every
\* buffer length, which is the only way the code uses it.
END_OF_STRING == 1000000000

NoNode == 0          \* Python None as a node reference
Root == 1            \* SuffixTree.root, the first node ever created
NoClass == <<"None">>  \* Python None as class_id (no one-character symbol)

Sigma == {"a", "b"}
Digits == <<"0", "1", "2", "3", "4", "5", "6", "7", "8", "9">>
DigitSet == {Digits[i] : i \in 1..10}

Min(a, b) == IF a < b THEN a ELSE b

\* str(n) for a non-negative integer n, as a sequence of symbols
RECURSIVE Str(_)
Str(n) == IF n < 10 THEN <<Digits[n + 1]>>
          ELSE Str(n \div 10) \o <<Digits[(n % 10) + 1]>>

\* 2 ** n, the value of 1 << n
RECURSIVE Shl1(_)
Shl1(n) == IF n = 0 THEN 1 ELSE 2 * Shl1(n - 1)

\* a | b on non-negative integers
RECURSIVE BitOr(_, _)
BitOr(a, b) == IF a = 0 THEN b
               ELSE IF b = 0 THEN a
               ELSE (IF a % 2 = 1 \/ b % 2 = 1 THEN 1 ELSE 0)
                    + 2 * BitOr(a \div 2, b \div 2)

\* (bit_vector >> i) % 2 == 1
BitSet(bit_vector, i) == (bit_vector \div Shl1(i)) % 2 = 1

\* ------------------------------------------------------------------ inputs
Words == UNION {[1..k -> Sigma] : k \in 0..MaxLen}

\* append_string calls as <<input, class_id>>.  Under Spec the inputs are
\* words over Sigma without a class, each a class of its own, and the two
\* calls of the documented example "abcdef" / "xyzabc".
ScenarioB == {<< <<"a", "b", "c", "d", "e", "f">>, <<"A">> >>,
              << <<"x", "y", "z", "a", "b", "c">>, <<"B">> >>}

AppendCalls == (Words \X {NoClass}) \cup ScenarioB

\* Under SpecClasses a word may also join the class "A".
ClassedCalls == (Words \X {NoClass, <<"A">>}) \cup ScenarioB

\* Under SpecReserved some inputs contain the delimiter '$' and digits, the
\* symbols the terminators are made of.
ReservedWords == {<<"a">>, <<"0", "$", "a">>, <<"$", "0", "0">>,
                  <<"$", "0", "a">>, <<"a", "$", "a">>}

ReservedCalls == ReservedWords \X {NoClass, <<"A">>}

\* Under SpecMany the strings are short and many.
ManyCalls == {<<>>, <<"a">>} \X {NoClass}

MinLens == {1, 2}

\* ------------------------------------------------------------------- state
VARIABLES
  input_string,          \* SuffixTree.input_string
  strings_count,         \* SuffixTree.strings_count
  classes,               \* SuffixTree.classes: class id -> string indices
  nodes,                 \* every SuffixTreeNode, by identifier + 1
  leaves,                \* SuffixTree.leaves
  pc,                    \* "idle", or the position inside append_string
  current_string_index,  \* locals of append_string
  index,
  active_node,
  active_edge,
  active_length,
  remainder,
  previous_node,
  new_leaves,
  inputs,                \* the argument of every append_string call so far
  queries,               \* find_common_substrings calls since the last append
  result,                \* the mapping the last query returned
  min_len,               \* its min_substr_len
  prev_result,           \* the mapping the query before it returned
  prev_min

tree == <<input_string, strings_count, classes, nodes, leaves>>
locals == <<current_string_index, index, active_node, active_edge,
            active_length, remainder, previous_node, new_leaves>>
calls == <<inputs, queries, result, min_len, prev_result, prev_min>>
vars == <<tree, pc, locals, calls>>

\* ---------------------------------------------------------- SuffixTreeNode
\* SuffixTreeNode.__init__; a dict of edges is the sequence of its items in
\* insertion order
NewNode(start, end) ==
  [start |-> start, end |-> end, parent |-> NoNode, suffix_link |-> NoNode,
   edges |-> <<>>, bit_vector |-> 0]

EmptyMap == [k \in {} |-> <<>>]

\* input_string[i]
CharAt(i) == input_string[i + 1]

\* s[a:b] of Python for 0 <= a, 0 <= b
Slice(s, a, b) == SubSeq(s, a + 1, Min(b, Len(s)))

\* key in node.edges
HasEdge(node, key) == \E j \in 1..Len(node.edges) : node.edges[j].key = key

\* node.edges[key]
Child(node, key) ==
  LET j == CHOOSE j \in 1..Len(node.edges) : node.edges[j].key = key
  IN  node.edges[j].node

\* node.edges[key] = child; a key already present keeps its place in the dict
SetEdge(edges, key, child) ==
  IF \E j \in 1..Len(edges) : edges[j].key = key
  THEN [j \in 1..Len(edges) |->
          IF edges[j].key = key THEN [key |-> key, node |-> child] ELSE edges[j]]
  ELSE Append(edges, [key |-> key, node |-> child])

\* SuffixTreeNode.get_edge_length
get_edge_length(node, current_index) ==
  Min(node.end, current_index + 1) - node.start

\* SuffixTreeNode.add_child on the arena ns: the new node gets the next
\* identifier, its parent is `parent`, and parent.edges[key] points to it
add_child(ns, parent, key, start, end) ==
  LET child == Len(ns) + 1
      grown == Append(ns, [NewNode(start, end) EXCEPT !.parent = parent])
  IN  [grown EXCEPT ![parent].edges = SetEdge(@, key, child)]

\* SuffixTreeNode.add_exisiting_node_as_child
add_exisiting_node_as_child(ns, parent, key, node) ==
  [ns EXCEPT ![node].parent = parent,
             ![parent].edges = SetEdge(@, key, node)]

\* "if previous_node is not None: previous_node.suffix_link = target"
LinkPrevious(ns, target) ==
  IF previous_node # NoNode
  THEN [ns EXCEPT ![previous_node].suffix_link = target]
  ELSE ns

\* ----------------------------------------------------------------- Init
Init ==
  /\ input_string = <<>>
  /\ strings_count = 0
  /\ classes = EmptyMap
  /\ nodes = <<NewNode(0, END_OF_STRING)>>
  /\ leaves = <<>>
  /\ pc = "idle"
  /\ current_string_index = 0
  /\ index = 0
  /\ active_node = Root
  /\ active_edge = 0
  /\ active_length = 0
  /\ remainder = 0
  /\ previous_node = NoNode
  /\ new_leaves = <<>>
  /\ inputs = <<>>
  /\ queries = 0
  /\ result = EmptyMap
  /\ min_len = 0
  /\ prev_result = EmptyMap
  /\ prev_min = 0

\* ------------------------------------------------------- append_string
\* a terminator that leaves the index out: the same ending for every string
TerminatorWithoutIndex(current) == <<"$">>

\* line 121: the ending '$' + str(current_string_index) of a string
Terminator(current) == <<"$">> \o Str(current)

\* lines 117-144: terminator, buffer, class registration, the active point
append_string(s, class_id) ==
  /\ pc = "idle"
  /\ LET key == IF class_id = NoClass
                THEN <<"$">> \o Str(strings_count)   \* line 129
                ELSE class_id
     IN  classes' = IF key \in DOMAIN classes
                    THEN [classes EXCEPT ![key] = Append(@, strings_count)]
                    ELSE (key :> <<strings_count>>) @@ classes
  /\ input_string' = input_string \o s \o Terminator(strings_count)
  /\ strings_count' = strings_count + 1
  /\ current_string_index' = strings_count
  /\ index' = Len(input_string)
  /\ active_node' = Root
  /\ active_edge' = 0
  /\ active_length' = 0
  /\ remainder' = 0
  /\ previous_node' = NoNode
  /\ new_leaves' = <<>>
  /\ pc' = "for"
  /\ inputs' = Append(inputs, s)
  /\ queries' = 0
  /\ result' = EmptyMap
  /\ min_len' = 0
  /\ prev_result' = EmptyMap
  /\ prev_min' = 0
  /\ UNCHANGED <<nodes, leaves>>

\* lines 147-149: the head of "for index in range(...)" with an index left
ForNext ==
  /\ pc = "for"
  /\ index < Len(input_string)
  /\ previous_node' = NoNode
  /\ remainder' = remainder + 1
  /\ pc' = "while"
  /\ UNCHANGED <<tree, current_string_index, index, active_node, active_edge,
                 active_length, new_leaves, calls>>

\* lines 151-152: the active edge of this pass of the while loop
ActiveEdge == IF active_length = 0 THEN index ELSE active_edge

\* lines 205-212 after an insertion into the arena ns: remainder, then the
\* suffix link or the root; the while test and the loop head follow
AfterInsert(ns) ==
  /\ nodes' = ns
  /\ remainder' = remainder - 1
  /\ IF active_node = Root /\ active_length > 0
     THEN /\ active_length' = active_length - 1
          /\ active_edge' = index - remainder' + 1
          /\ active_node' = active_node
     ELSE /\ active_node' = IF ns[active_node].suffix_link # NoNode
                            THEN ns[active_node].suffix_link
                            ELSE Root
          /\ active_edge' = ActiveEdge
          /\ active_length' = active_length
  /\ IF remainder' > 0
     THEN pc' = "while" /\ index' = index
     ELSE pc' = "for" /\ index' = index + 1

\* lines 154-166: no edge starts with the active symbol, a new leaf
NewLeaf ==
  /\ pc = "while"
  /\ ~HasEdge(nodes[active_node], CharAt(ActiveEdge))
  /\ LET leaf_node == Len(nodes) + 1
         added == add_child(nodes, active_node, CharAt(ActiveEdge),
                            index, END_OF_STRING)
         tagged == [added EXCEPT ![leaf_node].bit_vector =
                                    Shl1(current_string_index)]
     IN  /\ new_leaves' = Append(new_leaves, leaf_node)
         /\ AfterInsert(LinkPrevious(tagged, active_node))
  /\ previous_node' = active_node
  /\ UNCHANGED <<input_string, strings_count, classes, leaves,
                 current_string_index, calls>>

\* lines 169-177: the active length covers the whole edge, walk down
WalkDown ==
  /\ pc = "while"
  /\ HasEdge(nodes[active_node], CharAt(ActiveEdge))
  /\ LET next_node == Child(nodes[active_node], CharAt(ActiveEdge))
         next_edge_length == get_edge_length(nodes[next_node], index)
     IN  /\ active_length >= next_edge_length
         /\ active_edge' = ActiveEdge + next_edge_length
         /\ active_length' = active_length - next_edge_length
         /\ active_node' = next_node
  /\ UNCHANGED <<tree, pc, current_string_index, index, remainder,
                 previous_node, new_leaves, calls>>

\* lines 181-186: the edge already spells the suffix, stop this index
AlreadyThere ==
  /\ pc = "while"
  /\ HasEdge(nodes[active_node], CharAt(ActiveEdge))
  /\ LET next_node == Child(nodes[active_node], CharAt(ActiveEdge))
     IN  /\ active_length < get_edge_length(nodes[next_node], index)
         /\ CharAt(nodes[next_node].start + active_length) = CharAt(index)
  /\ active_length' = active_length + 1
  /\ active_edge' = ActiveEdge
  /\ nodes' = LinkPrevious(nodes, active_node)
  /\ previous_node' = active_node
  /\ pc' = "for"
  /\ index' = index + 1
  /\ UNCHANGED <<input_string, strings_count, classes, leaves,
                 current_string_index, active_node, remainder, new_leaves,
                 calls>>

\* lines 188-203: split the edge at the active length and hang a new leaf
SplitEdge ==
  /\ pc = "while"
  /\ HasEdge(nodes[active_node], CharAt(ActiveEdge))
  /\ LET next_node == Child(nodes[active_node], CharAt(ActiveEdge))
         old_start == nodes[next_node].start
     IN  /\ active_length < get_edge_length(nodes[next_node], index)
         /\ CharAt(old_start + active_length) # CharAt(index)
         /\ LET split_node == Len(nodes) + 1
                leaf_node == Len(nodes) + 2
                n1 == add_child(nodes, active_node, CharAt(ActiveEdge),
                                old_start, old_start + active_length)
                n2 == [n1 EXCEPT ![next_node].start = @ + active_length]
                n3 == add_exisiting_node_as_child(
                        n2, split_node, CharAt(n2[next_node].start), next_node)
                n4 == add_child(n3, split_node, CharAt(index),
                                index, END_OF_STRING)
                n5 == [n4 EXCEPT ![leaf_node].bit_vector =
                                    Shl1(current_string_index)]
            IN  /\ new_leaves' = Append(new_leaves, leaf_node)
                /\ AfterInsert(LinkPrevious(n5, split_node))
                /\ previous_node' = split_node
  /\ UNCHANGED <<input_string, strings_count, classes, leaves,
                 current_string_index, calls>>

\* lines 214-217: the range is exhausted; close the new leaves and return
Finalize ==
  /\ pc = "for"
  /\ index = Len(input_string)
  /\ nodes' = [n \in 1..Len(nodes) |->
                 IF \E j \in 1..Len(new_leaves) : new_leaves[j] = n
                 THEN [nodes[n] EXCEPT !.end = Len(input_string)]
                 ELSE nodes[n]]
  /\ leaves' = leaves \o new_leaves
  /\ pc' = "idle"
  /\ current_string_index' = 0
  /\ index' = 0
  /\ active_node' = Root
  /\ active_edge' = 0
  /\ active_length' = 0
  /\ remainder' = 0
  /\ previous_node' = NoNode
  /\ new_leaves' = <<>>
  /\ UNCHANGED <<input_string, strings_count, classes, calls>>

\* ----------------------------------------------- find_common_substrings
\* a test that is content with one class instead of all of them
is_successful_in_some_class(bit_vector) ==
  \E key \in DOMAIN classes :
    \E j \in 1..Len(classes[key]) : BitSet(bit_vector, classes[key][j])

\* SuffixTree.is_successful: every class has a member whose bit is set
is_successful(bit_vector) ==
  \A key \in DOMAIN classes :
    \E j \in 1..Len(classes[key]) : BitSet(bit_vector, classes[key][j])

\* lines 228-241: the walk from one node up to the root, on the arena ns with
\* the candidates lca found so far
RECURSIVE Walk(_, _, _, _)
Walk(ns, lca, node, prev_bit_vector) ==
  IF node = NoNode
  THEN [ns |-> ns, lca |-> lca]
  ELSE IF /\ prev_bit_vector # 0
          /\ BitOr(ns[node].bit_vector, prev_bit_vector) = ns[node].bit_vector
  THEN [ns |-> ns, lca |-> lca]
  ELSE LET bit_vector == BitOr(ns[node].bit_vector, prev_bit_vector)
       IN  Walk([ns EXCEPT ![node].bit_vector = bit_vector],
                IF is_successful(bit_vector) THEN lca \cup {node} ELSE lca,
                ns[node].parent,
                bit_vector)

\* line 227: "for leaf in self.leaves", from the i-th leaf on
RECURSIVE Propagate(_, _, _)
Propagate(ns, lca, i) ==
  IF i > Len(leaves)
  THEN [ns |-> ns, lca |-> lca]
  ELSE LET w == Walk(ns, lca, leaves[i], 0)
       IN  Propagate(w.ns, w.lca, i + 1)

\* lines 250-255: the labels from the root down to the node
RECURSIVE PathLabel(_, _)
PathLabel(ns, node) ==
  IF ns[node].parent = NoNode
  THEN <<>>
  ELSE PathLabel(ns, ns[node].parent)
       \o Slice(input_string, ns[node].start, ns[node].end)

\* s without its trailing digits
RECURSIVE DropTrailingDigits(_)
DropTrailingDigits(s) ==
  IF s # <<>> /\ s[Len(s)] \in DigitSet
  THEN DropTrailingDigits(SubSeq(s, 1, Len(s) - 1))
  ELSE s

\* line 257: re.sub(r'(.*?)\$?\d*$', r'\1', s).  The lazy group stops at the
\* first position whose rest is an optional '$' followed by digits only: the
\* trailing digits and one '$' before them are removed.
StripEnding(s) ==
  LET t == DropTrailingDigits(s)
  IN  IF t # <<>> /\ t[Len(t)] = "$" THEN SubSeq(t, 1, Len(t) - 1) ELSE t

\* s.find('$'): the 0-based index of the first '$', -1 if there is none
FindDollar(s) ==
  IF \E j \in 1..Len(s) : s[j] = "$"
  THEN (CHOOSE j \in 1..Len(s) :
          s[j] = "$" /\ \A h \in 1..(j - 1) : s[h] # "$") - 1
  ELSE -1

\* _extract_identifiers, from bit number `identifier` on
RECURSIVE ExtractFrom(_, _)
ExtractFrom(bit_vector, identifier) ==
  IF bit_vector <= 0
  THEN <<>>
  ELSE (IF bit_vector % 2 = 1 THEN <<identifier>> ELSE <<>>)
       \o ExtractFrom(bit_vector \div 2, identifier + 1)

_extract_identifiers(bit_vector) == ExtractFrom(bit_vector, 0)

\* SuffixTree.find_leaves_in_subtree: (string id, depth) pairs; ChildLeaves
\* is its loop over root.edges.items(), from the j-th item on
RECURSIVE find_leaves_in_subtree(_, _), ChildLeaves(_, _, _)
find_leaves_in_subtree(ns, root) ==
  LET substr_len ==
        FindDollar(Slice(input_string, ns[root].start, ns[root].end))
      ids == _extract_identifiers(ns[root].bit_vector)
  IN  IF substr_len >= 0
      THEN [j \in 1..Len(ids) |-> <<ids[j], substr_len>>]
      ELSE ChildLeaves(ns, root, 1)

ChildLeaves(ns, root, j) ==
  IF j > Len(ns[root].edges)
  THEN <<>>
  ELSE LET new_vals == find_leaves_in_subtree(ns, ns[root].edges[j].node)
       IN  [h \in 1..Len(new_vals) |->
              <<new_vals[h][1],
                new_vals[h][2] + ns[root].end - ns[root].start>>]
           \o ChildLeaves(ns, root, j + 1)

\* s.split('$')
RECURSIVE SplitDollar(_)
SplitDollar(s) ==
  LET at == FindDollar(s)
  IN  IF at < 0
      THEN <<s>>
      ELSE <<SubSeq(s, 1, at)>> \o SplitDollar(SubSeq(s, at + 2, Len(s)))

\* s without its leading digits
RECURSIVE DropLeadingDigits(_)
DropLeadingDigits(s) ==
  IF s # <<>> /\ s[1] \in DigitSet
  THEN DropLeadingDigits(SubSeq(s, 2, Len(s)))
  ELSE s

\* SuffixTree.get_string_lengths
get_string_lengths ==
  LET l == SplitDollar(input_string)
  IN  [j \in 1..Len(l) |-> Len(DropLeadingDigits(DropTrailingDigits(l[j])))]

\* an index that forgets the length of the candidate's own edge
PositionIndexWithoutEdge(size, from_last, node_substr_len, matching_len) ==
  size - from_last - matching_len

\* the index _format_positions computes for one (id, from_last) pair
PositionIndex(size, from_last, node_substr_len, matching_len) ==
  size - (from_last - node_substr_len) - matching_len

\* SuffixTree._format_positions, from the j-th position on
RECURSIVE FormatFrom(_, _, _, _, _, _)
FormatFrom(return_value, positions, node_substr_len, matching_len, sizes, j) ==
  IF j > Len(positions)
  THEN return_value
  ELSE LET identifiers == positions[j][1]
           from_last == positions[j][2]
           at == PositionIndex(sizes[identifiers + 1], from_last,
                               node_substr_len, matching_len)
       IN  FormatFrom(
             [return_value EXCEPT ![identifiers + 1] = Append(@, at)],
             positions, node_substr_len, matching_len, sizes, j + 1)

_format_positions(positions, node_substr_len, matching_len, sizes) ==
  FormatFrom([i \in 1..strings_count |-> <<>>], positions,
             node_substr_len, matching_len, sizes, 1)

\* lines 250-257: the substring a candidate node stands for
CommonSubstring(ns, node) == StripEnding(PathLabel(ns, node))

\* lines 260-266: the positions reported for a candidate node
Positions(ns, node) ==
  _format_positions(find_leaves_in_subtree(ns, node),
                    ns[node].end - ns[node].start,
                    Len(CommonSubstring(ns, node)),
                    get_string_lengths)

\* lines 249-258: what each candidate long enough would report, as the pairs
\* <<common_substring, positions>>
Found(ns, lowest_common_ancestors, min_substr_len) ==
  {<<CommonSubstring(ns, n), Positions(ns, n)>> :
     n \in {c \in lowest_common_ancestors :
              Len(CommonSubstring(ns, c)) >= min_substr_len}}

\* lines 249-269: the candidates are a Python set of objects, iterated in an
\* order the memory layout decides, and the first candidate of each substring
\* wins.  Every mapping that some order returns, for the given substrings.
RECURSIVE ReturnValues(_, _)
ReturnValues(found, substrings) ==
  IF substrings = {}
  THEN {EmptyMap}
  ELSE LET s == CHOOSE x \in substrings : TRUE
       IN  {(s :> f[2]) @@ rest :
              f \in {g \in found : g[1] = s},
              rest \in ReturnValues(found, substrings \ {s})}

\* the walk, then the candidates, each evaluated once
find_common_substrings(min_substr_len) ==
  /\ pc = "idle"
  /\ queries < MaxQueries
  /\ \E walked \in {Propagate(nodes, {}, 1)} :
       \E found \in {Found(walked.ns, walked.lca, min_substr_len)} :
         /\ nodes' = walked.ns
         /\ result' \in ReturnValues(found, {f[1] : f \in found})
  /\ min_len' = min_substr_len
  /\ prev_result' = result
  /\ prev_min' = min_len
  /\ queries' = queries + 1
  /\ UNCHANGED <<input_string, strings_count, classes, leaves, pc, locals,
                 inputs>>

\* ------------------------------------------------------- specifications
Build == ForNext \/ NewLeaf \/ WalkDown \/ AlreadyThere \/ SplitEdge \/ Finalize

\* a call of append_string on a tree that holds fewer than `most` strings
AppendCall(Calls, most) ==
  \E call \in Calls :
    strings_count < most /\ append_string(call[1], call[2])

Query == \E min_substr_len \in MinLens : find_common_substrings(min_substr_len)

Next == AppendCall(AppendCalls, MaxStrings) \/ Build \/ Query

Spec == Init /\ [][Next]_vars

NextClasses == AppendCall(ClassedCalls, MoreStrings) \/ Build \/ Query

SpecClasses == Init /\ [][NextClasses]_vars

NextReserved == AppendCall(ReservedCalls, MoreStrings) \/ Build \/ Query

SpecReserved == Init /\ [][NextReserved]_vars

NextMany == AppendCall(ManyCalls, ManyStrings) \/ Build

SpecMany == Init /\ [][NextMany]_vars

\* ------------------------------------------------------------- properties
Range(s) == {s[j] : j \in 1..Len(s)}

\* s occurs in t
IsSubstring(s, t) ==
  \E a \in 0..(Len(t) - Len(s)) : SubSeq(t, a + 1, a + Len(s)) = s

\* an index of a Python slice of a sequence of length n
SliceIndex(a, n) == IF a < 0 THEN (IF a + n < 0 THEN 0 ELSE a + n) ELSE Min(a, n)

\* s[a:b] of Python for any integers a and b
PySlice(s, a, b) == SubSeq(s, SliceIndex(a, Len(s)) + 1, SliceIndex(b, Len(s)))

\* the i-th appended input (i from 0) and the class ids registered
InputOf(i) == inputs[i + 1]

\* the sum of Len(inputs[j]) + extra over the first n inputs
RECURSIVE SumLen(_, _)
SumLen(n, extra) ==
  IF n = 0 THEN 0 ELSE SumLen(n - 1, extra) + Len(inputs[n]) + extra

\* the buffer length once the string with index i has been appended
RECURSIVE EndOfString(_)
EndOfString(i) ==
  (IF i = 0 THEN 0 ELSE EndOfString(i - 1))
  + Len(InputOf(i)) + Len(Terminator(i))

\* no call is running and a query was the last call
Returned == pc = "idle" /\ queries >= 1

\* all inputs so far are free of the symbols terminators are made of
PlainInputs ==
  \A j \in 1..Len(inputs) : Range(inputs[j]) \cap (DigitSet \cup {"$"}) = {}

\* C1: two consecutive find_common_substrings calls with the same
\* min_substr_len and no append_string in between return the same mapping.
C1_Idempotent ==
  (pc = "idle" /\ queries >= 2 /\ min_len = prev_min) => result = prev_result

\* C2: every reported offset o of a returned substring s in string i
\* satisfies input_i[o : o + len(s)] == s.
C2_RoundTrip ==
  Returned =>
    \A s \in DOMAIN result :
      \A i \in 1..Len(result[s]) :
        \A j \in 1..Len(result[s][i]) :
          LET o == result[s][i][j]
          IN  PySlice(inputs[i], o, o + Len(s)) = s

\* C3: a call of append_string whose input contains '$' leaves input_string,
\* strings_count, classes, leaves and every node unchanged.
C3_ReservedRejected ==
  [][(Len(inputs') > Len(inputs) /\ "$" \in Range(inputs'[Len(inputs')]))
       => UNCHANGED tree]_vars

\* C4: every returned substring occurs in at least one appended input of
\* every registered class.
C4_Sound ==
  Returned =>
    \A s \in DOMAIN result :
      \A key \in DOMAIN classes :
        \E j \in 1..Len(classes[key]) :
          IsSubstring(s, InputOf(classes[key][j]))

ScenarioBQueried ==
  /\ pc = "idle"
  /\ inputs = << <<"a", "b", "c", "d", "e", "f">>,
                 <<"x", "y", "z", "a", "b", "c">> >>
  /\ classes = (<<"A">> :> <<0>>) @@ (<<"B">> :> <<1>>)
  /\ queries = 1
  /\ min_len = 2

DisjointQueried ==
  /\ Returned
  /\ min_len = 2
  /\ Len(inputs) = 2
  /\ Range(inputs[1]) \cap Range(inputs[2]) = {}
  /\ Cardinality(DOMAIN classes) = 2

\* C7: two strings that share no symbol, each in its own class, have no
\* common substring: the mapping returned for min_substr_len = 2 is empty.
C7_Disjoint == DisjointQueried => result = EmptyMap

C7_Witness ==
  /\ DisjointQueried
  /\ inputs = << <<"a", "a">>, <<"b", "b">> >>
  /\ queries = 1
  /\ result = EmptyMap

\* the node reached from `node` by spelling s along child edges, consuming
\* whole edge labels only; NoNode if s cannot be spelled that way
RECURSIVE Locate(_, _)
Locate(node, s) ==
  IF s = <<>>
  THEN node
  ELSE IF ~HasEdge(nodes[node], s[1])
  THEN NoNode
  ELSE LET child == Child(nodes[node], s[1])
           label == Slice(input_string, nodes[child].start, nodes[child].end)
       IN  IF Len(label) <= Len(s) /\ SubSeq(s, 1, Len(label)) = label
           THEN Locate(child, SubSeq(s, Len(label) + 1, Len(s)))
           ELSE NoNode

\* C8: for inputs without '$' and digits, every non-empty suffix of
\* input_i + '$' + str(i) is spelled from the root exactly down to a node
\* that is in the leaf list, has no children and has bit_vector 1 << i.
C8_SuffixLeaves ==
  (pc = "idle" /\ PlainInputs) =>
    \A i \in 0..(strings_count - 1) :
      LET whole == InputOf(i) \o Terminator(i)
      IN  \A a \in 1..Len(whole) :
            LET at == Locate(Root, SubSeq(whole, a, Len(whole)))
            IN  /\ at # NoNode
                /\ at \in Range(leaves)
                /\ nodes[at].edges = <<>>
                /\ nodes[at].bit_vector = Shl1(i)

\* C9: in every state, every child c under key k of a node n has parent n, a
\* non-empty label and input_string[c.start] = k, and the keys of one node
\* are pairwise distinct.
C9_EdgeKeys ==
  \A n \in 1..Len(nodes) :
    \A j \in 1..Len(nodes[n].edges) :
      LET k == nodes[n].edges[j].key
          c == nodes[nodes[n].edges[j].node]
      IN  /\ c.parent = n
          /\ c.start < Min(c.end, Len(input_string))
          /\ CharAt(c.start) = k
          /\ \A h \in 1..Len(nodes[n].edges) :
               nodes[n].edges[h].key = k => h = j

\* `node` is `top` or below it
RECURSIVE Below(_, _)
Below(node, top) ==
  IF node = NoNode THEN FALSE
  ELSE IF node = top THEN TRUE
  ELSE Below(nodes[node].parent, top)

\* C10: when find_common_substrings has returned, bit i of a node's
\* bit_vector is set exactly when a leaf created by the append of string i
\* is the node or lies below it.
C10_Propagated ==
  Returned =>
    \A n \in 1..Len(nodes) :
      \A i \in 0..(strings_count - 1) :
        BitSet(nodes[n].bit_vector, i)
          <=> \E j \in 1..Len(leaves) :
                /\ nodes[leaves[j]].end = EndOfString(i)
                /\ Below(leaves[j], n)
====
